---- MODULE Spec2Model ----
(***************************************************************************)
(* Model of taichi/transforms/optimize_local_variable.cpp: the per-alloca  *)
(* analyzer AllocaOptimize, the mutations it commits by throwing           *)
(* IRModified, and the restart driver AllocaFindAndOptimize.               *)
(*                                                                         *)
(* The IR is a tree: a block is a sequence of statements, a statement is a *)
(* record with a stable id.  Fields of a statement record:                 *)
(*   id    instance id                                                     *)
(*   kind  "const" "alloca" "store" "load" "atomic" "use" "if" "while"     *)
(*         "range_for" "struct_for"                                        *)
(*   var   LocalStoreStmt::ptr, AtomicOpStmt::dest, RangeForStmt::loop_var *)
(*   opnd  LocalStoreStmt::data, AtomicOpStmt::val, operand of a "use"     *)
(*   ptr   LocalLoadStmt::ptr (one [var, offset] per lane),                *)
(*         StructForStmt::loop_vars (one [var, offset] per loop variable)  *)
(*   body  IfStmt::true_statements, loop body                              *)
(*   els   IfStmt::false_statements                                        *)
(***************************************************************************)
EXTENDS Integers, Sequences, FiniteSets, TLC

nullptr == 0

MkStmt(id, kind, var, opnd, ptr, body, els) ==
  [id |-> id, kind |-> kind, var |-> var, opnd |-> opnd, ptr |-> ptr,
   body |-> body, els |-> els]

IsLoopKind(k) == k \in {"while", "range_for", "struct_for"}

IsContainer(s) == s.kind = "if" \/ IsLoopKind(s.kind)

(***************************************************************************)
(* Tree utilities (Block::locate, Block::erase, Stmt::replace_with,        *)
(* irpass::analysis::gather_statements).                                   *)
(***************************************************************************)
RECURSIVE Flatten(_)
Flatten(blk) ==
  IF blk = <<>> THEN <<>>
  ELSE LET s == Head(blk)
       IN  <<s>> \o Flatten(s.body) \o Flatten(s.els) \o Flatten(Tail(blk))

StmtsOf(blk) == LET f == Flatten(blk) IN {f[i] : i \in 1..Len(f)}

IdsOf(blk) == {s.id : s \in StmtsOf(blk)}

StmtById(blk, id) == CHOOSE s \in StmtsOf(blk) : s.id = id

locate(blk, id) ==
  IF \E i \in 1..Len(blk) : blk[i].id = id
  THEN CHOOSE i \in 1..Len(blk) : blk[i].id = id
  ELSE -1

RECURSIVE erase(_, _)
erase(blk, id) ==
  IF blk = <<>> THEN <<>>
  ELSE LET s == Head(blk)
       IN  IF s.id = id THEN Tail(blk)
           ELSE <<[s EXCEPT !.body = erase(s.body, id),
                            !.els = erase(s.els, id)]>> \o erase(Tail(blk), id)

RECURSIVE replace_with(_, _, _)
replace_with(blk, old, new) ==
  IF blk = <<>> THEN <<>>
  ELSE LET s == Head(blk)
       IN  <<[s EXCEPT !.opnd = IF s.opnd = old THEN new ELSE s.opnd,
                       !.body = replace_with(s.body, old, new),
                       !.els = replace_with(s.els, old, new)]>>
           \o replace_with(Tail(blk), old, new)

\* stmt->insert_after_me(zero); the new statement follows stmt in its block
RECURSIVE insert_after_me(_, _, _)
insert_after_me(blk, id, new) ==
  IF blk = <<>> THEN <<>>
  ELSE LET s == Head(blk)
       IN  IF s.id = id THEN <<s, new>> \o Tail(blk)
           ELSE <<[s EXCEPT !.body = insert_after_me(s.body, id, new),
                            !.els = insert_after_me(s.els, id, new)]>>
                \o insert_after_me(Tail(blk), id, new)

have_operand(s, id) == s.opnd = id \/ s.var = id

gather_statements(blk, id) == {s \in StmtsOf(blk) : have_operand(s, id)}

\* the block that owns statement id (alloca_stmt->parent)
RECURSIVE ParentBlock(_, _)
ParentBlock(blk, id) ==
  IF blk = <<>> THEN <<>>
  ELSE IF locate(blk, id) # -1 THEN blk
  ELSE LET s == Head(blk)
           b == ParentBlock(s.body, id)
           e == ParentBlock(s.els, id)
       IN  IF b # <<>> THEN b
           ELSE IF e # <<>> THEN e
           ELSE ParentBlock(Tail(blk), id)

(***************************************************************************)
(* AllocaOptimize: the analyzer state and the visitors.                    *)
(***************************************************************************)
NoThrow == [type |-> "none", stmt |-> 0, by |-> 0]

IRModified(type, stmt, by) == [type |-> type, stmt |-> stmt, by |-> by]

Fatal == [type |-> "fatal", stmt |-> 0, by |-> 0]

AllocaOptimize(alloca_stmt) ==
  [alloca_stmt |-> alloca_stmt,
   stored |-> FALSE,
   loaded |-> FALSE,
   last_store |-> nullptr,
   last_store_valid |-> FALSE,
   last_store_loaded |-> FALSE,
   last_atomic |-> nullptr,
   last_atomic_eliminable |-> FALSE,
   is_inside_loop |-> "outside_loop",
   thrown |-> NoThrow]

\* the atomic op leaves the pending store in place
Mut_visit_AtomicOpStmt(st, stmt) ==
  IF stmt.var # st.alloca_stmt THEN st
  ELSE [st EXCEPT !.stored = TRUE,
                  !.loaded = TRUE,
                  !.last_atomic = stmt.id,
                  !.last_atomic_eliminable = TRUE]

\* the atomic op drops the pending store but leaves it marked valid
Mut_AtomicKeepsValid(st, stmt) ==
  IF stmt.var # st.alloca_stmt THEN st
  ELSE [st EXCEPT !.stored = TRUE,
                  !.loaded = TRUE,
                  !.last_store = nullptr,
                  !.last_store_loaded = FALSE,
                  !.last_atomic = stmt.id,
                  !.last_atomic_eliminable = TRUE]

visit_AtomicOpStmt(st, stmt) ==
  IF stmt.var # st.alloca_stmt THEN st
  ELSE [st EXCEPT !.stored = TRUE,
                  !.loaded = TRUE,
                  !.last_store = nullptr,
                  !.last_store_valid = FALSE,
                  !.last_store_loaded = FALSE,
                  !.last_atomic = stmt.id,
                  !.last_atomic_eliminable = TRUE]

\* the store is recorded but not trusted as the current value
Mut_visit_LocalStoreStmt(st, stmt) ==
  IF stmt.var # st.alloca_stmt THEN st
  ELSE [st EXCEPT !.stored = TRUE,
                  !.last_store = stmt.id,
                  !.last_store_valid = FALSE,
                  !.last_store_loaded = FALSE,
                  !.last_atomic = nullptr,
                  !.last_atomic_eliminable = FALSE]

visit_LocalStoreStmt(st, stmt) ==
  IF stmt.var # st.alloca_stmt THEN st
  ELSE [st EXCEPT !.stored = TRUE,
                  !.last_store = stmt.id,
                  !.last_store_valid = TRUE,
                  !.last_store_loaded = FALSE,
                  !.last_atomic = nullptr,
                  !.last_atomic_eliminable = FALSE]

\* lane l (0-based) of a load is ptr[l + 1]
IsRegular(stmt, a) ==
  \A l \in 1..Len(stmt.ptr) : stmt.ptr[l].offset = l - 1 /\ stmt.ptr[l].var = a

Touches(stmt, a) == \E l \in 1..Len(stmt.ptr) : stmt.ptr[l].var = a

\* a load counts as regular as soon as one lane reads the slot
Mut_visit_LocalLoadStmt(st, stmt) ==
  LET touch == \E l \in 1..Len(stmt.ptr) : stmt.ptr[l].var = st.alloca_stmt
      regular == touch
      s1 == IF touch
            THEN [st EXCEPT !.loaded = TRUE,
                            !.last_store_loaded =
                               IF st.last_store # nullptr THEN TRUE ELSE @,
                            !.last_atomic_eliminable =
                               IF st.last_atomic # nullptr THEN FALSE ELSE @]
            ELSE st
  IN  IF ~regular THEN s1
      ELSE IF ~s1.stored /\ s1.is_inside_loop # "inside_loop_may_have_stores"
      THEN [s1 EXCEPT !.thrown = IRModified("zero", stmt.id, 0)]
      ELSE IF s1.last_store_valid
      THEN [s1 EXCEPT !.thrown = IRModified("forward", stmt.id, s1.last_store)]
      ELSE s1

visit_LocalLoadStmt(st, stmt) ==
  LET regular == IsRegular(stmt, st.alloca_stmt)
      touch == Touches(stmt, st.alloca_stmt)
      s1 == IF touch
            THEN [st EXCEPT !.loaded = TRUE,
                            !.last_store_loaded =
                               IF st.last_store # nullptr THEN TRUE ELSE @,
                            !.last_atomic_eliminable =
                               IF st.last_atomic # nullptr THEN FALSE ELSE @]
            ELSE st
  IN  IF ~regular THEN s1
      ELSE IF ~s1.stored /\ s1.is_inside_loop # "inside_loop_may_have_stores"
      THEN [s1 EXCEPT !.thrown = IRModified("zero", stmt.id, 0)]
      ELSE IF s1.last_store_valid
      THEN [s1 EXCEPT !.thrown = IRModified("forward", stmt.id, s1.last_store)]
      ELSE s1

\* a branch pair passes for agreeing as soon as both stores are valid
Mut_SameValidStore(t, f) == t.last_store_valid /\ f.last_store_valid

\* both branches end with the same valid last store
SameValidStore(t, f) ==
  t.last_store_valid /\ f.last_store_valid /\ t.last_store = f.last_store

\* the merge of visit(IfStmt*) once both branches returned normally
MergeIf(st, t, f) ==
  LET stored == t.stored \/ f.stored
      loaded == t.loaded \/ f.loaded
      s0 == [st EXCEPT !.stored = stored, !.loaded = loaded]
      s1 ==
        IF ~stored THEN s0
        ELSE IF SameValidStore(t, f)
        THEN IF t.last_store = nullptr
             THEN [s0 EXCEPT !.thrown = Fatal]
             ELSE IF st.last_store = t.last_store
             THEN [s0 EXCEPT !.last_store_valid = TRUE,
                             !.last_store_loaded =
                                st.last_store_loaded \/ t.last_store_loaded
                                \/ f.last_store_loaded]
             ELSE [s0 EXCEPT !.last_store_valid = TRUE,
                             !.last_store = t.last_store,
                             !.last_store_loaded =
                                t.last_store_loaded \/ f.last_store_loaded]
        ELSE IF t.last_store = st.last_store /\ f.last_store = st.last_store
        THEN [s0 EXCEPT !.last_store_valid = FALSE,
                        !.last_store_loaded =
                           st.last_store_loaded \/ t.last_store_loaded
                           \/ f.last_store_loaded]
        ELSE LET true_eliminable == t.last_store # st.last_store
                                    /\ t.last_store # nullptr
                                    /\ ~t.last_store_loaded
                 false_eliminable == f.last_store # st.last_store
                                     /\ f.last_store # nullptr
                                     /\ ~f.last_store_loaded
             IN  IF true_eliminable
                 THEN [s0 EXCEPT !.last_store_valid = FALSE,
                                 !.last_store = t.last_store,
                                 !.last_store_loaded = FALSE]
                 ELSE IF false_eliminable
                 THEN [s0 EXCEPT !.last_store_valid = FALSE,
                                 !.last_store = f.last_store,
                                 !.last_store_loaded = FALSE]
                 ELSE [s0 EXCEPT !.last_store_valid = FALSE,
                                 !.last_store = nullptr,
                                 !.last_store_loaded = FALSE]
  IN  IF s1.thrown # NoThrow THEN s1
      ELSE IF t.last_atomic = st.last_atomic /\ f.last_atomic = st.last_atomic
      THEN [s1 EXCEPT !.last_atomic_eliminable =
                         st.last_atomic_eliminable /\ t.last_atomic_eliminable
                         /\ f.last_atomic_eliminable]
      ELSE LET true_eliminable == t.last_atomic # st.last_atomic
                                  /\ t.last_atomic # nullptr
                                  /\ t.last_atomic_eliminable
               false_eliminable == f.last_atomic # st.last_atomic
                                   /\ f.last_atomic # nullptr
                                   /\ f.last_atomic_eliminable
           IN  IF true_eliminable
               THEN [s1 EXCEPT !.last_atomic = t.last_atomic,
                               !.last_atomic_eliminable = TRUE]
               ELSE IF false_eliminable
               THEN [s1 EXCEPT !.last_atomic = f.last_atomic,
                               !.last_atomic_eliminable = TRUE]
               ELSE [s1 EXCEPT !.last_atomic = nullptr,
                               !.last_atomic_eliminable = FALSE]

\* the last store of a storing loop stays as valid as the body left it
Mut_MergeLoop(st, loop, is_loop_var) ==
  LET s0 == [st EXCEPT !.stored = st.stored \/ loop.stored,
                       !.loaded = st.loaded \/ loop.loaded]
  IN  IF is_loop_var
      THEN [s0 EXCEPT !.stored = TRUE,
                      !.loaded = TRUE,
                      !.last_store = nullptr,
                      !.last_store_valid = FALSE,
                      !.last_store_loaded = FALSE,
                      !.last_atomic = nullptr,
                      !.last_atomic_eliminable = FALSE]
      ELSE IF ~loop.stored THEN s0
      ELSE [s0 EXCEPT !.last_store = loop.last_store,
                      !.last_store_valid = loop.last_store_valid,
                      !.last_atomic = loop.last_atomic,
                      !.last_store_loaded = loop.loaded,
                      !.last_atomic_eliminable = ~loop.loaded]

\* a loop that binds the slot is merged like any other loop
Mut_MergeLoopVar(st, loop, is_loop_var) ==
  LET s0 == [st EXCEPT !.stored = st.stored \/ loop.stored,
                       !.loaded = st.loaded \/ loop.loaded]
  IN  IF ~loop.stored THEN s0
      ELSE [s0 EXCEPT !.last_store = loop.last_store,
                      !.last_store_valid = FALSE,
                      !.last_atomic = loop.last_atomic,
                      !.last_store_loaded = loop.loaded,
                      !.last_atomic_eliminable = ~loop.loaded]

\* the state of visit_loop after the first walk of the body returned normally
MergeLoop(st, loop, is_loop_var) ==
  LET s0 == [st EXCEPT !.stored = st.stored \/ loop.stored,
                       !.loaded = st.loaded \/ loop.loaded]
  IN  IF is_loop_var
      THEN [s0 EXCEPT !.stored = TRUE,
                      !.loaded = TRUE,
                      !.last_store = nullptr,
                      !.last_store_valid = FALSE,
                      !.last_store_loaded = FALSE,
                      !.last_atomic = nullptr,
                      !.last_atomic_eliminable = FALSE]
      ELSE IF ~loop.stored THEN s0
      ELSE [s0 EXCEPT !.last_store = loop.last_store,
                      !.last_store_valid = FALSE,
                      !.last_atomic = loop.last_atomic,
                      !.last_store_loaded = loop.loaded,
                      !.last_atomic_eliminable = ~loop.loaded]

\* the second walk is taken for a valid last store only
Mut_SecondWalk(s0, loop) ==
  /\ loop.loaded
  /\ s0.is_inside_loop # "inside_loop_no_stores"
  /\ s0.last_store_valid

\* does visit_loop walk the body a second time, tagged inside_loop_no_stores
SecondWalk(s0, loop) ==
  /\ loop.loaded
  /\ s0.is_inside_loop # "inside_loop_no_stores"
  /\ \/ ~s0.stored /\ s0.is_inside_loop # "inside_loop_may_have_stores"
     \/ s0.last_store_valid

IsLoopVar(stmt, a) ==
  CASE stmt.kind = "range_for" -> stmt.var = a
    [] stmt.kind = "struct_for" ->
         \E i \in 1..Len(stmt.ptr) : stmt.ptr[i].var = a
    [] OTHER -> FALSE

RECURSIVE visit_Block(_, _)
RECURSIVE visit(_, _)

\* the branches change places in the merge
Mut_visit_IfStmt(st, if_stmt) ==
  LET true_branch == visit_Block(st, if_stmt.body)
  IN  IF true_branch.thrown # NoThrow
      THEN [st EXCEPT !.thrown = true_branch.thrown]
      ELSE LET false_branch == visit_Block(st, if_stmt.els)
           IN  IF false_branch.thrown # NoThrow
               THEN [st EXCEPT !.thrown = false_branch.thrown]
               ELSE MergeIf(st, false_branch, true_branch)

visit_IfStmt(st, if_stmt) ==
  LET true_branch == visit_Block(st, if_stmt.body)
  IN  IF true_branch.thrown # NoThrow
      THEN [st EXCEPT !.thrown = true_branch.thrown]
      ELSE LET false_branch == visit_Block(st, if_stmt.els)
           IN  IF false_branch.thrown # NoThrow
               THEN [st EXCEPT !.thrown = false_branch.thrown]
               ELSE MergeIf(st, true_branch, false_branch)

visit_loop(st, body, is_loop_var) ==
  IF is_loop_var /\ st.is_inside_loop # "outside_loop"
  THEN [st EXCEPT !.thrown = Fatal]
  ELSE
    LET fresh == [AllocaOptimize(st.alloca_stmt) EXCEPT !.is_inside_loop =
                    IF st.is_inside_loop = "inside_loop_no_stores"
                    THEN "inside_loop_no_stores"
                    ELSE "inside_loop_may_have_stores"]
        loop == visit_Block(fresh, body)
    IN  IF loop.thrown # NoThrow
        THEN [st EXCEPT !.thrown = loop.thrown]
        ELSE
          LET s0 == MergeLoop(st, loop, is_loop_var)
          IN  IF ~is_loop_var /\ ~loop.stored /\ SecondWalk(s0, loop)
              THEN LET again == visit_Block(
                          [s0 EXCEPT !.is_inside_loop = "inside_loop_no_stores"],
                          body)
                   IN  [s0 EXCEPT !.thrown = again.thrown]
              ELSE s0

visit(st, stmt) ==
  CASE stmt.kind = "atomic" -> visit_AtomicOpStmt(st, stmt)
    [] stmt.kind = "store" -> visit_LocalStoreStmt(st, stmt)
    [] stmt.kind = "load" -> visit_LocalLoadStmt(st, stmt)
    [] stmt.kind = "if" -> visit_IfStmt(st, stmt)
    [] IsLoopKind(stmt.kind) ->
         visit_loop(st, stmt.body, IsLoopVar(stmt, st.alloca_stmt))
    [] OTHER -> st

visit_Block(st, block) ==
  IF block = <<>> \/ st.thrown # NoThrow THEN st
  ELSE visit_Block(visit(st, Head(block)), Tail(block))

\* the operand scan is skipped
Mut_AtomicUnused(block, last_atomic) == TRUE

\* no statement of the block of the alloca has last_atomic as an operand
AtomicUnused(block, last_atomic) == gather_statements(block, last_atomic) = {}

\* the loads of the slot are not looked at
Mut_NeverStoredNorLoaded(st) == ~st.stored

\* the walk met no store and no load of the slot
NeverStoredNorLoaded(st) == ~st.stored /\ ~st.loaded

\* the atomic op is tried before the store
Mut_run(root, alloca_stmt) ==
  LET block == ParentBlock(root, alloca_stmt)
      location == locate(block, alloca_stmt)
      st == visit_Block(AllocaOptimize(alloca_stmt),
                        SubSeq(block, location + 1, Len(block)))
  IN  IF st.thrown # NoThrow THEN st
      ELSE IF st.last_atomic # nullptr /\ st.last_atomic_eliminable
              /\ gather_statements(block, st.last_atomic) = {}
      THEN [st EXCEPT !.thrown = IRModified("erase_atomic", st.last_atomic, 0)]
      ELSE IF st.last_store # nullptr /\ ~st.last_store_loaded
      THEN [st EXCEPT !.thrown = IRModified("erase_store", st.last_store, 0)]
      ELSE IF ~st.stored /\ ~st.loaded
      THEN [st EXCEPT !.thrown = IRModified("erase_alloca", alloca_stmt, 0)]
      ELSE st

\* AllocaOptimize::run on the tree rooted at root: the analyzer state when
\* run returns or throws (thrown tells which)
run(root, alloca_stmt) ==
  LET block == ParentBlock(root, alloca_stmt)
      location == locate(block, alloca_stmt)
      st == visit_Block(AllocaOptimize(alloca_stmt),
                        SubSeq(block, location + 1, Len(block)))
  IN  IF st.thrown # NoThrow THEN st
      ELSE IF st.last_store # nullptr /\ ~st.last_store_loaded
      THEN [st EXCEPT !.thrown = IRModified("erase_store", st.last_store, 0)]
      ELSE IF st.last_atomic # nullptr /\ st.last_atomic_eliminable
              /\ AtomicUnused(block, st.last_atomic)
      THEN [st EXCEPT !.thrown = IRModified("erase_atomic", st.last_atomic, 0)]
      ELSE IF NeverStoredNorLoaded(st)
      THEN [st EXCEPT !.thrown = IRModified("erase_alloca", alloca_stmt, 0)]
      ELSE st

(***************************************************************************)
(* The mutation a run commits before it throws IRModified.                 *)
(***************************************************************************)
ZeroConst(id) == MkStmt(id, "const", 0, 0, <<>>, <<>>, <<>>)

\* the replaced load is left in its block
Mut_Apply(root, m, fresh) ==
  CASE m.type = "zero" ->
         replace_with(insert_after_me(root, m.stmt, ZeroConst(fresh)),
                      m.stmt, fresh)
    [] m.type = "forward" ->
         replace_with(root, m.stmt, StmtById(root, m.by).opnd)
    [] OTHER -> erase(root, m.stmt)

Apply(root, m, fresh) ==
  CASE m.type = "zero" ->
         erase(replace_with(insert_after_me(root, m.stmt, ZeroConst(fresh)),
                            m.stmt, fresh),
               m.stmt)
    [] m.type = "forward" ->
         erase(replace_with(root, m.stmt, StmtById(root, m.by).opnd), m.stmt)
    [] OTHER -> erase(root, m.stmt)

(***************************************************************************)
(* The programs the pass is started on.  Statement 1 is a constant defined *)
(* before the declarations; the declarations follow it in the root block   *)
(* and the body follows the declarations.  Ids are preorder positions.     *)
(***************************************************************************)
MaxStmts == 5

MaxDepth == 2

MaxRare == 1

MaxInvocations == 2

\* the ids of the constant and of the declarations of slots s and t
ConstId == nullptr + 1

SlotS == ConstId + 1

SlotT == SlotS + 1

\* operand of a statement that uses the value computed just before it
PREV == nullptr - 1

Leaf(kind, var, opnd, ptr) == MkStmt(0, kind, var, opnd, ptr, <<>>, <<>>)

Lane(var, offset) == [var |-> var, offset |-> offset]

\* the statements every program may repeat: a store, an atomic op and a
\* regular load per slot, the conditional and the loop that binds no slot
CommonLeaves(A) ==
  << Leaf("store", SlotS, ConstId, <<>>),
     Leaf("atomic", SlotS, ConstId, <<>>),
     Leaf("load", 0, 0, <<Lane(SlotS, 0)>>) >>
  \o (IF SlotT \in A
      THEN << Leaf("store", SlotT, ConstId, <<>>),
              Leaf("atomic", SlotT, ConstId, <<>>),
              Leaf("load", 0, 0, <<Lane(SlotT, 0)>>) >>
      ELSE <<>>)

\* the statements a program holds at most MaxRare of: a user of the value
\* before it, a load that is not regular, a store of the value before it
RareLeaves(A) ==
  << Leaf("use", 0, PREV, <<>>),
     Leaf("load", 0, 0, <<Lane(SlotS, 1)>>) >>
  \o (IF SlotT \in A
      THEN << Leaf("store", SlotT, PREV, <<>>),
              Leaf("load", 0, 0, <<Lane(SlotS, 0), Lane(SlotT, 1)>>) >>
      ELSE <<>>)

IfProto == MkStmt(0, "if", 0, 0, <<>>, <<>>, <<>>)

CommonLoops == << MkStmt(0, "while", 0, 0, <<>>, <<>>, <<>>) >>

\* loops that bind slot s as their loop variable
RareLoops ==
  << MkStmt(0, "range_for", SlotS, 0, <<>>, <<>>, <<>>),
     MkStmt(0, "struct_for", 0, 0, <<Lane(SlotS, 0)>>, <<>>, <<>>) >>

\* A program body is written as its statements in preorder, one token
\* <<k, b, e>> per statement: k picks the statement among Protos, b and e
\* count the statements nested in its body and in its else block.
Protos(A) ==
  CommonLeaves(A) \o RareLeaves(A) \o <<IfProto>> \o CommonLoops \o RareLoops

Codes(A, seq) == { i \in 1..Len(Protos(A)) : \E j \in 1..Len(seq) : Protos(A)[i] = seq[j] }

RECURSIVE BlocksOf(_, _, _, _)
RECURSIVE StmtsOfSize(_, _, _, _)

\* the blocks of exactly n statements, exactly r of them rare, nested at most
\* d deep
BlocksOf(n, d, r, A) ==
  IF n = 0 THEN (IF r = 0 THEN {<<>>} ELSE {})
  ELSE UNION { { s \o rest : s \in StmtsOfSize(kr[1], d, kr[2], A),
                             rest \in BlocksOf(n - kr[1], d, r - kr[2], A) }
               : kr \in (1..n) \X (0..r) }

StmtsOfSize(k, d, r, A) ==
  (IF k = 1 /\ r = 0
   THEN { << <<c, 0, 0>> >> : c \in Codes(A, CommonLeaves(A)) } ELSE {})
  \cup (IF k = 1 /\ r = 1
        THEN { << <<c, 0, 0>> >> : c \in Codes(A, RareLeaves(A)) } ELSE {})
  \cup (IF d = 0 THEN {}
        ELSE { << <<c, k - 1, 0>> >> \o b :
                 c \in Codes(A, CommonLoops),
                 b \in BlocksOf(k - 1, d - 1, r, A) }
             \cup (IF r = 0 THEN {}
                   ELSE { << <<c, k - 1, 0>> >> \o b :
                            c \in Codes(A, RareLoops),
                            b \in BlocksOf(k - 1, d - 1, r - 1, A) })
             \cup UNION { { << <<c, ir[1], k - 1 - ir[1]>> >> \o b \o e :
                              c \in Codes(A, <<IfProto>>),
                              b \in BlocksOf(ir[1], d - 1, ir[2], A),
                              e \in BlocksOf(k - 1 - ir[1], d - 1, r - ir[2], A) }
                          : ir \in (0..(k - 1)) \X (0..r) })

Decl(a) == MkStmt(a, "alloca", 0, 0, <<>>, <<>>, <<>>)

Preamble(A) ==
  <<MkStmt(ConstId, "const", 0, 0, <<>>, <<>>, <<>>), Decl(SlotS)>>
  \o (IF SlotT \in A THEN <<Decl(SlotT)>> ELSE <<>>)

\* the block written by tokens lo..hi; token i becomes statement base + i, and
\* an operand PREV is the load or atomic op just before the statement, or the
\* constant when there is none
RECURSIVE Decode(_, _, _, _, _, _)
Decode(toks, lo, hi, base, prev, A) ==
  IF lo > hi THEN <<>>
  ELSE LET t == toks[lo]
           p == Protos(A)[t[1]]
           s == [p EXCEPT !.id = base + lo,
                          !.opnd = IF @ = PREV THEN prev ELSE @,
                          !.body = Decode(toks, lo + 1, lo + t[2], base, prev, A),
                          !.els = Decode(toks, lo + t[2] + 1, lo + t[2] + t[3],
                                         base, prev, A)]
       IN  <<s>> \o Decode(toks, lo + t[2] + t[3] + 1, hi, base,
                           IF p.kind \in {"load", "atomic"} THEN base + lo
                           ELSE ConstId, A)

Program(toks, A) ==
  Preamble(A) \o Decode(toks, 1, Len(toks), 1 + Cardinality(A), ConstId, A)

\* the programs over the slots A: MaxStmts bounds declarations and body together
IsProgram(t, A) ==
  \E n \in 0..(MaxStmts - Cardinality(A)) : \E r \in 0..MaxRare :
    \E toks \in BlocksOf(n, MaxDepth, r, A) : t = Program(toks, A)

(***************************************************************************)
(* AllocaFindAndOptimize: the driver.                                      *)
(***************************************************************************)
VARIABLES
  tree,         \* the IR under the root passed to optimize_local_variable
  visited,      \* AllocaFindAndOptimize::visited
  cursor,       \* position of node->accept among the declarations it meets
  pc,           \* "walk", "done" (run returned) or "fatal" (TI_ASSERT failed)
  thrown,       \* what the last AllocaOptimize::run threw, with its alloca
  instance_id,  \* the id the next created statement gets
  invocation,   \* how many times optimize_local_variable was called
  input         \* the tree the current invocation was called on

vars == <<tree, visited, cursor, pc, thrown, instance_id, invocation, input>>

\* the declarations in the order node->accept meets them
AllocaSeq(root) ==
  LET f == Flatten(root)
      pick(s) == s.kind = "alloca"
  IN  SelectSeq(f, pick)

is_done(id) == id \in visited

Current == AllocaSeq(tree)[cursor].id

Walking == pc = "walk" /\ cursor <= Len(AllocaSeq(tree))

Caught(a, m) == [alloca |-> a, type |-> m.type, stmt |-> m.stmt, by |-> m.by]

Init ==
  /\ IsProgram(tree, {SlotS}) \/ IsProgram(tree, {SlotS, SlotT})
  /\ visited = {}
  /\ cursor = 1
  /\ pc = "walk"
  /\ thrown = Caught(0, NoThrow)
  /\ instance_id = 1 + Len(Flatten(tree))
  /\ invocation = 1
  /\ input = tree

\* visit(AllocaStmt*): the declaration is finished already
SkipDone ==
  /\ Walking
  /\ is_done(Current)
  /\ cursor' = cursor + 1
  /\ UNCHANGED <<tree, visited, pc, thrown, instance_id, invocation, input>>

\* set_done is left out
Mut_RunUnchanged ==
  /\ Walking
  /\ ~is_done(Current)
  /\ run(tree, Current).thrown = NoThrow
  /\ cursor' = cursor + 1
  /\ thrown' = Caught(Current, NoThrow)
  /\ UNCHANGED <<tree, visited, pc, instance_id, invocation, input>>

\* visit(AllocaStmt*): run returns, the declaration is set done
RunUnchanged ==
  /\ Walking
  /\ ~is_done(Current)
  /\ run(tree, Current).thrown = NoThrow
  /\ visited' = visited \cup {Current}
  /\ cursor' = cursor + 1
  /\ thrown' = Caught(Current, NoThrow)
  /\ UNCHANGED <<tree, pc, instance_id, invocation, input>>

\* the declaration is set done although its run threw
Mut_RunModified ==
  /\ Walking
  /\ ~is_done(Current)
  /\ LET m == run(tree, Current).thrown
     IN  /\ m.type \notin {"none", "fatal"}
         /\ tree' = Apply(tree, m, instance_id)
         /\ thrown' = Caught(Current, m)
         /\ instance_id' = IF m.type = "zero" THEN instance_id + 1
                           ELSE instance_id
  /\ visited' = visited \cup {Current}
  /\ cursor' = 1
  /\ UNCHANGED <<pc, invocation, input>>

\* visit(AllocaStmt*): run mutates the tree and throws; the driver catches
\* IRModified and starts the walk again
RunModified ==
  /\ Walking
  /\ ~is_done(Current)
  /\ LET m == run(tree, Current).thrown
     IN  /\ m.type \notin {"none", "fatal"}
         /\ tree' = Apply(tree, m, instance_id)
         /\ thrown' = Caught(Current, m)
         /\ instance_id' = IF m.type = "zero" THEN instance_id + 1
                           ELSE instance_id
  /\ cursor' = 1
  /\ UNCHANGED <<visited, pc, invocation, input>>

\* a TI_ASSERT of the analyzer fails: the pass aborts
RunFatal ==
  /\ Walking
  /\ ~is_done(Current)
  /\ run(tree, Current).thrown = Fatal
  /\ pc' = "fatal"
  /\ thrown' = Caught(Current, Fatal)
  /\ UNCHANGED <<tree, visited, cursor, instance_id, invocation, input>>

\* node->accept returned without IRModified: the loop breaks
Return ==
  /\ pc = "walk"
  /\ cursor > Len(AllocaSeq(tree))
  /\ pc' = "done"
  /\ UNCHANGED <<tree, visited, cursor, thrown, instance_id, invocation, input>>

\* irpass::optimize_local_variable is called again on the result
Reinvoke ==
  /\ pc = "done"
  /\ invocation < MaxInvocations
  /\ invocation' = invocation + 1
  /\ visited' = {}
  /\ cursor' = 1
  /\ pc' = "walk"
  /\ thrown' = Caught(0, NoThrow)
  /\ input' = tree
  /\ UNCHANGED <<tree, instance_id>>

Next ==
  \/ SkipDone
  \/ RunUnchanged
  \/ RunModified
  \/ RunFatal
  \/ Return
  \/ Reinvoke

Spec == Init /\ [][Next]_vars

\* a step of the driver is left: the walk is on, or the pass is called again
CanStep == pc = "walk" \/ (pc = "done" /\ invocation < MaxInvocations)

\* The driver is one sequential loop, so it never stops while a step is
\* left: weak fairness of Next, with the enabling condition of <<Next>>_vars
\* written out as CanStep.
FairSpec == Spec /\ ([]<>(~CanStep) \/ []<><<Next>>_vars)

(***************************************************************************)
(* What the program means: which writes of a slot a read of it can see.    *)
(* A write is named by its statement: the declaration (the slot holds zero *)
(* after it), a store, an atomic op, or a loop that binds the slot as its  *)
(* loop variable (it assigns the slot at the start of every iteration).    *)
(* Conditions are opaque: a conditional takes either branch and a loop     *)
(* runs its body any number of times, zero included.                       *)
(***************************************************************************)
Seen(s, in) == {<<s.id, w>> : w \in in}

RECURSIVE Flow(_, _, _)
RECURSIVE LoopEntry(_, _, _)

\* Flow over a block entered with the writes `in` possibly current:
\* out = the writes possibly current after it, obs = the pairs <<reader, write>>
Flow(blk, in, a) ==
  IF blk = <<>> THEN [out |-> in, obs |-> {}]
  ELSE
    LET s == Head(blk)
        here ==
          CASE s.kind = "alloca" /\ s.id = a -> [out |-> {a}, obs |-> {}]
            [] s.kind = "store" /\ s.var = a -> [out |-> {s.id}, obs |-> {}]
            [] s.kind = "atomic" /\ s.var = a ->
                 [out |-> {s.id}, obs |-> Seen(s, in)]
            [] s.kind = "load" /\ Touches(s, a) ->
                 [out |-> in, obs |-> Seen(s, in)]
            [] s.kind = "if" ->
                 LET t == Flow(s.body, in, a)
                     f == Flow(s.els, in, a)
                 IN  [out |-> t.out \cup f.out, obs |-> t.obs \cup f.obs]
            [] IsLoopKind(s.kind) /\ IsLoopVar(s, a) ->
                 LET b == Flow(s.body, {s.id}, a)
                 IN  [out |-> in \cup {s.id} \cup b.out, obs |-> b.obs]
            [] IsLoopKind(s.kind) /\ ~IsLoopVar(s, a) ->
                 LET e == LoopEntry(s.body, in, a)
                 IN  [out |-> e, obs |-> Flow(s.body, e, a).obs]
            [] OTHER -> [out |-> in, obs |-> {}]
        rest == Flow(Tail(blk), here.out, a)
    IN  [out |-> rest.out, obs |-> here.obs \cup rest.obs]

\* the writes possibly current at the start of some iteration of a loop
LoopEntry(body, in, a) ==
  LET o == Flow(body, in, a).out
  IN  IF o \subseteq in THEN in ELSE LoopEntry(body, in \cup o, a)

\* the writes the read r of slot a can see
Reaching(root, a, r) == {p[2] : p \in {q \in Flow(root, {}, a).obs : q[1] = r}}

\* the loads that can see the write w of slot a
LoadsSeeing(root, a, w) ==
  {p[1] : p \in {q \in Flow(root, {}, a).obs :
                   q[2] = w /\ StmtById(root, q[1]).kind = "load"}}

(***************************************************************************)
(* Places in the tree.                                                     *)
(***************************************************************************)
BlocksIn(root) == {root} \cup UNION {{s.body, s.els} : s \in StmtsOf(root)}

Inside(s) == IdsOf(s.body) \cup IdsOf(s.els)

\* statement y, or a statement holding y, comes later in the block of x
Follows(root, x, y) ==
  \E b \in BlocksIn(root) : \E i, j \in 1..Len(b) :
    /\ i < j
    /\ b[i].id = x
    /\ y = b[j].id \/ y \in Inside(b[j])

WritesTo(s, a) == s.kind \in {"store", "atomic"} /\ s.var = a

(***************************************************************************)
(* C1  Zero-fold soundness: whenever a run replaces a load by the zero     *)
(* constant, at any nesting depth of conditionals and loops, the only      *)
(* write of the slot the load could see is the declaration: no store, no   *)
(* atomic op and no loop binding of the slot can execute before it.        *)
(***************************************************************************)
C1_ZeroFoldSound ==
  [][RunModified /\ thrown'.type = "zero"
     => Reaching(tree, thrown'.alloca, thrown'.stmt) = {thrown'.alloca}]_vars

(***************************************************************************)
(* C2  Dead-write soundness: whenever a run erases a store or an atomic op *)
(* of a slot, no load of the slot can see the value it wrote, be the load  *)
(* next in the block, in a later conditional or in a later loop.           *)
(***************************************************************************)
C2_DeadWriteSound ==
  [][RunModified /\ thrown'.type \in {"erase_store", "erase_atomic"}
     => LoadsSeeing(tree, thrown'.alloca, thrown'.stmt) = {}]_vars

(***************************************************************************)
(* C3  Store-forwarding soundness: whenever a run replaces a load by the   *)
(* value of a store S, S is the one write of the slot the load can see: on *)
(* every path to the load S is executed and is the most recent write.      *)
(***************************************************************************)
C3_ForwardSound ==
  [][RunModified /\ thrown'.type = "forward"
     => /\ StmtById(tree, thrown'.by).kind = "store"
        /\ Reaching(tree, thrown'.alloca, thrown'.stmt) = {thrown'.by}]_vars

\* a load inside a loop or a conditional was forwarded from a store before it
C3_Witness ==
  /\ thrown.type = "forward"
  /\ thrown.by \in IdsOf(tree)
  /\ \E s \in StmtsOf(input) :
       IsContainer(s) /\ thrown.stmt \in Inside(s) /\ thrown.by \notin Inside(s)

(***************************************************************************)
(* C4  Idempotence: a second invocation of optimize_local_variable on the  *)
(* result of the first performs no mutation: throughout it the tree is the *)
(* tree it was called on.                                                  *)
(***************************************************************************)
C4_Idempotent == invocation >= 2 => tree = input

(***************************************************************************)
(* C5  Conditional join, agreeing branches.                                *)
(***************************************************************************)
EndsWithStore(blk, a) ==
  blk # <<>> /\ blk[Len(blk)].kind = "store" /\ blk[Len(blk)].var = a

\* block b holds at i a conditional whose branches end with their own stores
\* of the same value to slot a, and at i + 1 a regular load of a
AgreeingAt(b, i, a) ==
  /\ i < Len(b)
  /\ b[i].kind = "if"
  /\ EndsWithStore(b[i].body, a)
  /\ EndsWithStore(b[i].els, a)
  /\ b[i].body[Len(b[i].body)].opnd = b[i].els[Len(b[i].els)].opnd
  /\ b[i + 1].kind = "load"
  /\ IsRegular(b[i + 1], a)

\* the ids <<S1, S2, L>> of the two stores and the load at such places
AgreeingIfs(root, a) ==
  UNION { { <<b[i].body[Len(b[i].body)].id, b[i].els[Len(b[i].els)].id,
              b[i + 1].id>> : i \in {j \in 1..Len(b) : AgreeingAt(b, j, a)} }
          : b \in BlocksIn(root) }

\* C5 as claimed: when the pass returns, the load that followed the
\* conditional has been replaced (by V)
C5_AgreeingBranchesForwarded ==
  pc = "done" =>
    \A a \in {SlotS, SlotT} : \A p \in AgreeingIfs(input, a) :
      p[3] \notin IdsOf(tree)

\* C5 as amended: the two stores are distinct statements, so the merged last
\* store is invalid although both write V: the load after the conditional is
\* never replaced and neither store is ever erased
C5_DistinctStoresNotForwarded ==
  \A a \in {SlotS, SlotT} : \A p \in AgreeingIfs(input, a) :
    {p[1], p[2], p[3]} \subseteq IdsOf(tree)

C5_Witness ==
  /\ pc = "done"
  /\ invocation = 1
  /\ AgreeingIfs(input, SlotS) # {}
  /\ AgreeingIfs(tree, SlotS) # {}

(***************************************************************************)
(* C6  Conditional join, one-sided store: while a store B of the slot sits *)
(* in exactly one branch of a conditional and a load of the slot follows   *)
(* the conditional, no run replaces that load by the value of B or by      *)
(* zero, and no run erases B.                                              *)
(***************************************************************************)
StoresIn(blk, a) ==
  {s.id : s \in {x \in StmtsOf(blk) : x.kind = "store" /\ x.var = a}}

\* the stores of the conditional s that stores slot a in one branch only
OneSidedStores(s, a) ==
  IF StoresIn(s.els, a) = {} THEN StoresIn(s.body, a)
  ELSE IF StoresIn(s.body, a) = {} THEN StoresIn(s.els, a)
  ELSE {}

\* the pairs <<B, L>>: B a one-sided store of a conditional, L a load of
\* slot a that follows the conditional
OneSided(root, a) ==
  UNION { { <<B, l.id>> :
              B \in OneSidedStores(s, a),
              l \in {x \in StmtsOf(root) :
                       /\ x.kind = "load" /\ Touches(x, a)
                       /\ Follows(root, s.id, x.id)} }
          : s \in {x \in StmtsOf(root) : x.kind = "if"} }

C6_OneSidedStoreKept ==
  [][RunModified =>
       \A p \in OneSided(tree, thrown'.alloca) :
         /\ thrown'.stmt = p[2] => thrown'.type = "forward" /\ thrown'.by # p[1]
         /\ thrown'.stmt # p[1]]_vars

(***************************************************************************)
(* C7  Dead store elimination.                                             *)
(***************************************************************************)
\* the pairs <<A, B>> of stores to slot a that are consecutive in a block
StorePairs(root, a) ==
  UNION { { <<b[i].id, b[i + 1].id>> :
              i \in {k \in 1..(Len(b) - 1) :
                       /\ b[k].kind = "store" /\ b[k].var = a
                       /\ b[k + 1].kind = "store" /\ b[k + 1].var = a} }
          : b \in BlocksIn(root) }

\* C7 as claimed: when the pass returns, the first of two consecutive stores
\* has been erased, whatever follows the second
C7_FirstStoreErased ==
  pc = "done" =>
    \A a \in {SlotS, SlotT} : \A p \in StorePairs(input, a) :
      p[1] \notin IdsOf(tree)

\* C7 as amended: a run erases only the last pending store of its walk, so
\* when the pass returns the first of two consecutive stores has been erased
\* exactly when the second has been
C7_FirstErasedIffSecond ==
  pc = "done" =>
    \A a \in {SlotS, SlotT} : \A p \in StorePairs(input, a) :
      p[1] \in IdsOf(tree) <=> p[2] \in IdsOf(tree)

\* a pair of consecutive stores was erased, the second first
C7_Witness ==
  /\ pc = "done"
  /\ invocation = 1
  /\ \E p \in StorePairs(input, SlotS) :
       p[1] \notin IdsOf(tree) /\ p[2] \notin IdsOf(tree)
  /\ \E s \in StmtsOf(tree) : s.kind = "load"

(***************************************************************************)
(* C8  Loop conservativeness: past a loop (while, range-for or struct-for) *)
(* whose body writes the slot the last store is invalid, and a load that   *)
(* follows the loop and can see a write of its body is never replaced,     *)
(* neither by a stored value nor by zero.                                  *)
(***************************************************************************)
\* the statements of the block of alloca a that follow it
Scope(root, a) ==
  LET block == ParentBlock(root, a)
  IN  SubSeq(block, locate(block, a) + 1, Len(block))

BodyWrites(s, a) == {w.id : w \in {x \in StmtsOf(s.body) : WritesTo(x, a)}}

\* the loops of root whose body writes slot a
StoringLoops(root, a) ==
  {s \in StmtsOf(root) : IsLoopKind(s.kind) /\ BodyWrites(s, a) # {}}

\* the analyzer state after the first i statements that follow alloca a
StateAfter(root, a, i) ==
  visit_Block(AllocaOptimize(a), SubSeq(Scope(root, a), 1, i))

InvalidPastLoops(root, a) ==
  \A i \in 1..Len(Scope(root, a)) :
    LET st == StateAfter(root, a, i)
    IN  Scope(root, a)[i] \in StoringLoops(root, a) /\ st.thrown = NoThrow
          => st.stored /\ ~st.last_store_valid

C8_LoopConservative ==
  [][/\ \A a \in {SlotS, SlotT} : a \in IdsOf(tree) => InvalidPastLoops(tree, a)
     /\ RunModified =>
          \A w \in StoringLoops(tree, thrown'.alloca) :
            /\ Follows(tree, w.id, thrown'.stmt)
            /\ BodyWrites(w, thrown'.alloca)
                 \cap Reaching(tree, thrown'.alloca, thrown'.stmt) # {}
            => thrown'.type \notin {"zero", "forward"}]_vars

\* the pass returned and left a regular load after a loop that stores the
\* slot, with a store before the loop
C8_Witness ==
  /\ pc = "done"
  /\ \E w \in StoringLoops(tree, SlotS) : \E s, l \in StmtsOf(tree) :
       /\ s.kind = "store" /\ s.var = SlotS /\ Follows(tree, s.id, w.id)
       /\ l.kind = "load" /\ IsRegular(l, SlotS) /\ Follows(tree, w.id, l.id)

(***************************************************************************)
(* C9  Atomic liveness: a run never erases an atomic op that a statement   *)
(* of the tree has as an operand.                                          *)
(***************************************************************************)
Users(root, id) == {s \in StmtsOf(root) : s.opnd = id}

C9_UsedAtomicKept ==
  [][RunModified /\ thrown'.type = "erase_atomic"
     => Users(tree, thrown'.stmt) = {}]_vars

\* the pass returned and left an atomic op that the walk found eliminable:
\* only the operand scan kept it
C9_Witness ==
  /\ pc = "done"
  /\ \E x \in StmtsOf(tree) :
       /\ x.kind = "atomic"
       /\ Users(tree, x.id) # {}
       /\ x.var \in IdsOf(tree)
       /\ LET st == visit_Block(AllocaOptimize(x.var), Scope(tree, x.var))
          IN  st.last_atomic = x.id /\ st.last_atomic_eliminable

(***************************************************************************)
(* C10  Zero-fold completeness: when the pass returns, of a slot that the  *)
(* program never stores, never updates atomically and never binds as a     *)
(* loop variable no regular load is left, at top level, inside             *)
(* conditionals or inside loops at any depth: each was replaced by a zero  *)
(* constant created for it.                                                *)
(***************************************************************************)
Unwritten(root, a) ==
  \A s \in StmtsOf(root) : ~WritesTo(s, a) /\ ~IsLoopVar(s, a)

RegularLoads(root, a) ==
  {s.id : s \in {x \in StmtsOf(root) : x.kind = "load" /\ IsRegular(x, a)}}

Consts(root) == {s.id : s \in {x \in StmtsOf(root) : x.kind = "const"}}

C10_ZeroFoldComplete ==
  pc = "done" /\ invocation = 1 =>
    \A a \in {SlotS, SlotT} :
      Unwritten(input, a) =>
        /\ RegularLoads(input, a) \cap IdsOf(tree) = {}
        /\ Cardinality(Consts(tree) \ Consts(input))
             >= Cardinality(RegularLoads(input, a))

\* a load inside a loop nested in a loop, and one inside a conditional
C10_Witness ==
  /\ pc = "done"
  /\ invocation = 1
  /\ Unwritten(input, SlotS)
  /\ \E l \in RegularLoads(input, SlotS) : \E w, v \in StmtsOf(input) :
       /\ IsLoopKind(w.kind) /\ IsLoopKind(v.kind)
       /\ v.id \in IdsOf(w.body) /\ l \in IdsOf(v.body)
  /\ RegularLoads(tree, SlotS) = {}

(***************************************************************************)
(* C11  Dead declaration elimination: a run erases a declaration only when *)
(* no store, atomic op, load or loop binding of its slot is left; when the *)
(* pass returns every declaration left has such a reference; and no        *)
(* statement of the tree refers to a declaration that is not in the tree.  *)
(***************************************************************************)
\* the statements that refer to slot a
Refs(root, a) ==
  {s \in StmtsOf(root) :
     \/ WritesTo(s, a)
     \/ s.kind = "load" /\ Touches(s, a)
     \/ IsLoopVar(s, a)}

Declared(root) == {s.id : s \in {x \in StmtsOf(root) : x.kind = "alloca"}}

C11_DeadDeclaration ==
  [][/\ RunModified /\ thrown'.type = "erase_alloca"
          => Refs(tree, thrown'.alloca) = {}
     /\ pc' = "done" => \A a \in Declared(tree') : Refs(tree', a) # {}
     /\ \A a \in {SlotS, SlotT} :
          Refs(tree', a) # {} => a \in Declared(tree')]_vars

\* the pass erased a declaration whose slot the input program referred to
C11_Witness ==
  /\ thrown.type = "erase_alloca"
  /\ Refs(input, thrown.alloca) # {}
  /\ thrown.alloca \notin Declared(tree)

(***************************************************************************)
(* C12  Termination: every mutation strictly decreases the number of load, *)
(* store, atomic op and declaration statements of the tree, so an          *)
(* invocation restarts at most as often as its input has such statements,  *)
(* and every invocation ends: the driver returns, or aborts on a contract  *)
(* violation.                                                              *)
(***************************************************************************)
Counted(root) ==
  Cardinality({s \in StmtsOf(root) :
                 s.kind \in {"load", "store", "atomic", "alloca"}})

C12_Terminates ==
  /\ [][RunModified => Counted(tree') < Counted(tree)]_vars
  /\ (pc = "walk") ~> (pc \in {"done", "fatal"})

\* the driver returned after at least three restarts
C12_Witness ==
  /\ pc = "done"
  /\ invocation = 1
  /\ Counted(input) - Counted(tree) >= 3
  /\ Counted(tree) > 0

(***************************************************************************)
(* C13  Store-forwarding outcome: when a slot is referred to only by a     *)
(* store of V and a regular load later in the same block, the pass returns *)
(* with the load, the store and the declaration erased and with every      *)
(* statement that used the load using V.                                   *)
(***************************************************************************)
\* the pairs <<S, L>>: the only references of slot a in root, a store and a
\* regular load that comes later in the block of the store
StoreLoad(root, a) ==
  UNION { { <<b[i].id, b[j].id>> :
              i \in {k \in 1..Len(b) : b[k].kind = "store" /\ b[k].var = a},
              j \in {k \in 1..Len(b) : b[k].kind = "load" /\ IsRegular(b[k], a)} }
          : b \in BlocksIn(root) }

OnlyStoreLoad(root, a) ==
  {p \in StoreLoad(root, a) :
     /\ locate(ParentBlock(root, p[1]), p[1]) < locate(ParentBlock(root, p[1]), p[2])
     /\ {s.id : s \in Refs(root, a)} = {p[1], p[2]}}

C13_StoreLoadOutcome ==
  pc = "done" =>
    \A a \in {SlotS, SlotT} : \A p \in OnlyStoreLoad(input, a) :
      /\ {p[1], p[2], a} \cap IdsOf(tree) = {}
      /\ \A u \in Users(input, p[2]) :
           u.id \in IdsOf(tree)
             => StmtById(tree, u.id).opnd = StmtById(input, p[1]).opnd

\* the store and the load sat inside a conditional or a loop, and a
\* statement that used the load is left and uses V
C13_Witness ==
  /\ pc = "done"
  /\ invocation = 1
  /\ \E p \in OnlyStoreLoad(input, SlotS) :
       /\ \E c \in StmtsOf(input) : IsContainer(c) /\ p[1] \in Inside(c)
       /\ \E u \in Users(input, p[2]) : u.id \in IdsOf(tree)

(***************************************************************************)
(* C14  Restart protocol of the driver: a declaration enters the finished  *)
(* set only in a step whose run on it left the tree unchanged; a step that *)
(* changes the tree adds nothing to the finished set and puts the walk     *)
(* back at the root; a run is only started on a declaration that is not    *)
(* finished; and the driver returns only at the end of a walk that changed *)
(* nothing, every declaration of the tree being finished.                  *)
(***************************************************************************)
C14_RestartProtocol ==
  [][/\ invocation' = invocation /\ visited' # visited
          => /\ visited' = visited \cup {Current}
             /\ run(tree, Current).thrown = NoThrow
             /\ tree' = tree
     /\ tree' # tree => visited' = visited /\ cursor' = 1 /\ pc' = "walk"
     /\ thrown' # thrown /\ invocation' = invocation
          => thrown'.alloca = Current /\ Current \notin visited
     /\ pc = "walk" /\ pc' = "done"
          => /\ tree' = tree
             /\ cursor > Len(AllocaSeq(tree))
             /\ Declared(tree) \subseteq visited]_vars

\* after a run on slot t changed the tree the walk started again and passed
\* the finished declaration of slot s without a run
C14_Witness ==
  /\ pc = "walk"
  /\ cursor = 2
  /\ SlotS \in visited
  /\ thrown.alloca = SlotT
  /\ thrown.type \notin {"none", "fatal"}

(***************************************************************************)
(* C15  Single mutation per walk: a run that mutates removes exactly one   *)
(* statement (and adds at most the zero constant) and throws at once; the  *)
(* statements its state refers to when it throws or returns are statements *)
(* of the tree it walked; and at the end of a walk the erasure of the dead *)
(* store comes before that of the atomic op, which comes before that of    *)
(* the declaration.                                                        *)
(***************************************************************************)
\* the analyzer state at the end of the walk of run, before its erasures
EndOfWalk(root, a) == visit_Block(AllocaOptimize(a), Scope(root, a))

StorePending(w) == w.last_store # nullptr /\ ~w.last_store_loaded

AtomicPending(root, w) ==
  /\ w.last_atomic # nullptr
  /\ w.last_atomic_eliminable
  /\ AtomicUnused(ParentBlock(root, w.alloca_stmt), w.last_atomic)

Live(root, st) ==
  /\ st.last_store # nullptr => st.last_store \in IdsOf(root)
  /\ st.last_atomic # nullptr => st.last_atomic \in IdsOf(root)
  /\ st.thrown.stmt # 0 => st.thrown.stmt \in IdsOf(root)
  /\ st.thrown.by # 0 => st.thrown.by \in IdsOf(root)

C15_SingleMutation ==
  [][/\ RunUnchanged \/ RunModified \/ RunFatal
          => Live(tree, run(tree, Current))
     /\ RunModified
          => LET w == EndOfWalk(tree, Current)
             IN  /\ IdsOf(tree) \ IdsOf(tree') = {thrown'.stmt}
                 /\ IdsOf(tree') \ IdsOf(tree) \subseteq {instance_id}
                 /\ w.thrown # NoThrow => thrown'.type = w.thrown.type
                 /\ w.thrown = NoThrow /\ StorePending(w)
                      => thrown'.type = "erase_store"
                 /\ thrown'.type = "erase_atomic"
                      => ~StorePending(w) /\ AtomicPending(tree, w)
                 /\ thrown'.type = "erase_alloca"
                      => ~StorePending(w) /\ ~AtomicPending(tree, w)]_vars

\* the first run erased a store while an unused atomic op was pending too
C15_Witness ==
  /\ thrown.type = "erase_store"
  /\ Counted(input) - Counted(tree) = 1
  /\ LET w == EndOfWalk(input, thrown.alloca)
     IN  /\ w.thrown = NoThrow
         /\ StorePending(w)
         /\ AtomicPending(input, w)

(***************************************************************************)
(* C16  Loop variable.                                                     *)
(***************************************************************************)
\* the loops of root that bind slot a as their loop variable
BindingLoops(root, a) == {s \in StmtsOf(root) : IsLoopVar(s, a)}

\* statement x, or a statement holding x, comes earlier in a block than
\* statement y or a statement holding y
Precedes(root, x, y) ==
  \E b \in BlocksIn(root) : \E i, j \in 1..Len(b) :
    /\ i < j
    /\ x = b[i].id \/ x \in Inside(b[i])
    /\ y = b[j].id \/ y \in Inside(b[j])

\* past every loop of the walked block that binds slot a the state is
\* stored, loaded, no last store, no last atomic
ResetPastBinding(root, a) ==
  \A i \in 1..Len(Scope(root, a)) :
    LET st == StateAfter(root, a, i)
    IN  IsLoopVar(Scope(root, a)[i], a) /\ st.thrown = NoThrow
          => /\ st.stored /\ st.loaded
             /\ st.last_store = nullptr /\ ~st.last_store_valid
             /\ st.last_atomic = nullptr /\ ~st.last_atomic_eliminable

BothReplace(root, a) ==
  { m \in { [pre |-> StateAfter(root, a, i - 1),
              t |-> visit_Block(StateAfter(root, a, i - 1), Scope(root, a)[i].body),
              f |-> visit_Block(StateAfter(root, a, i - 1), Scope(root, a)[i].els),
              post |-> StateAfter(root, a, i)]
            : i \in {k \in 1..Len(Scope(root, a)) : Scope(root, a)[k].kind = "if"} } :
      /\ m.pre.thrown = NoThrow /\ m.t.thrown = NoThrow /\ m.f.thrown = NoThrow
      /\ m.t.last_store # nullptr /\ m.f.last_store # nullptr
      /\ m.t.last_store # m.pre.last_store /\ m.f.last_store # m.pre.last_store
      /\ m.t.last_store # m.f.last_store }

\* C17 as claimed: the merged last-store candidate is none
C17_BothReplacedNone ==
  \A a \in Declared(tree) : \A m \in BothReplace(tree, a) :
    m.post.last_store = nullptr

\* C17 as amended: the merged last store is invalid, and the candidate is
\* the store of the true branch unless it was loaded there, then the store
\* of the false branch unless it was loaded there, and none only then
C17_TrueBranchAdopted ==
  \A a \in Declared(tree) : \A m \in BothReplace(tree, a) :
    /\ ~m.post.last_store_valid
    /\ ~m.post.last_store_loaded
    /\ m.post.last_store =
         IF ~m.t.last_store_loaded THEN m.t.last_store
         ELSE IF ~m.f.last_store_loaded THEN m.f.last_store
         ELSE nullptr

\* the first run erased the store of the true branch of such a conditional
\* at the end of its walk; the store of the false branch is in the tree
C17_Witness ==
  /\ thrown.type = "erase_store"
  /\ Counted(input) - Counted(tree) = 1
  /\ \E m \in BothReplace(input, thrown.alloca) :
       /\ thrown.stmt = m.t.last_store
       /\ m.f.last_store \in IdsOf(tree)

(***************************************************************************)
(* C18  Nested loop-variable contract violation: the pass aborts only on a *)
(* loop binding the slot that is nested inside another loop binding the    *)
(* same slot; a loop binding the slot nested inside a loop that does not   *)
(* bind it is analyzed without a fatal error.                              *)
(***************************************************************************)
\* a loop binding slot a sits inside a loop that binds a as well
Rebinding(root, a) ==
  \E outer, inner \in BindingLoops(root, a) : inner.id \in Inside(outer)

C18_FatalOnlyWhenRebinding ==
  pc = "fatal" => Rebinding(tree, thrown.alloca)

(***************************************************************************)
(* C19  Analyzer state invariant: in every state an analyzer is in during  *)
(* a walk, a valid last store is non-null, a last store implies stored, a  *)
(* last atomic implies stored and loaded, no visit turns stored or loaded  *)
(* from true to false, and the last store on which both branches of a      *)
(* conditional agree is non-null.                                          *)
(***************************************************************************)
\* the analyzer that visit_loop creates for the body
FreshFor(st) ==
  [AllocaOptimize(st.alloca_stmt) EXCEPT !.is_inside_loop =
     IF st.is_inside_loop = "inside_loop_no_stores"
     THEN "inside_loop_no_stores"
     ELSE "inside_loop_may_have_stores"]

RECURSIVE Visits(_, _)
RECURSIVE Nested(_, _)

\* every visit of a walk of blk started in state st, the visits by the
\* analyzers of branches and loop bodies included, as <<before, stmt, after>>
Visits(st, blk) ==
  IF blk = <<>> \/ st.thrown # NoThrow THEN {}
  ELSE {<<st, Head(blk), visit(st, Head(blk))>>}
       \cup Nested(st, Head(blk))
       \cup Visits(visit(st, Head(blk)), Tail(blk))

Nested(st, s) ==
  IF s.kind = "if"
  THEN Visits(st, s.body) \cup Visits(st, s.els)
  ELSE IF IsLoopKind(s.kind)
          /\ ~(IsLoopVar(s, st.alloca_stmt) /\ st.is_inside_loop # "outside_loop")
  THEN LET loop == visit_Block(FreshFor(st), s.body)
           s0 == MergeLoop(st, loop, IsLoopVar(s, st.alloca_stmt))
       IN  Visits(FreshFor(st), s.body)
           \cup (IF /\ loop.thrown = NoThrow
                     /\ ~IsLoopVar(s, st.alloca_stmt)
                     /\ ~loop.stored
                     /\ SecondWalk(s0, loop)
                  THEN Visits([s0 EXCEPT !.is_inside_loop = "inside_loop_no_stores"],
                              s.body)
                  ELSE {})
  ELSE {}

Consistent(st) ==
  /\ st.last_store_valid => st.last_store # nullptr
  /\ st.last_store # nullptr => st.stored
  /\ st.last_atomic # nullptr => st.stored /\ st.loaded

\* the TI_ASSERT of the conditional merge holds for the visit v of an if
AgreedStoreNonNull(v) ==
  LET t == visit_Block(v[1], v[2].body)
      f == visit_Block(v[1], v[2].els)
  IN  /\ v[2].kind = "if"
      /\ t.thrown = NoThrow /\ f.thrown = NoThrow
      /\ t.stored \/ f.stored
      /\ SameValidStore(t, f)
      => t.last_store # nullptr

C19_AnalyzerInvariant ==
  \A a \in Declared(tree) :
    \A v \in Visits(AllocaOptimize(a), Scope(tree, a)) :
      /\ Consistent(v[1])
      /\ Consistent(v[3])
      /\ v[1].stored => v[3].stored
      /\ v[1].loaded => v[3].loaded
      /\ AgreedStoreNonNull(v)

\* the pass returned from a tree where the branches of a conditional agree
\* on a valid store and where an atomic op becomes the last atomic
C19_Witness ==
  /\ pc = "done"
  /\ SlotS \in Declared(tree)
  /\ \E v, w \in Visits(AllocaOptimize(SlotS), Scope(tree, SlotS)) :
       /\ v[2].kind = "if"
       /\ v[3].last_store_valid
       /\ SameValidStore(visit_Block(v[1], v[2].body), visit_Block(v[1], v[2].els))
       /\ w[3].last_atomic # nullptr

(***************************************************************************)
(* C20  Per-slot frame.                                                    *)
(***************************************************************************)
\* statement s is a store, an atomic op, a load of every lane or the
\* declaration of slot a
OfSlot(s, a) ==
  \/ WritesTo(s, a)
  \/ s.kind = "load" /\ \A l \in 1..Len(s.ptr) : s.ptr[l].var = a
  \/ s.kind = "alloca" /\ s.id = a

\* the stores, atomic ops, loads and declarations that are not of slot a
Others(root, a) ==
  {s \in StmtsOf(root) :
     s.kind \in {"store", "atomic", "load", "alloca"} /\ ~OfSlot(s, a)}

\* C20 as claimed: a run for slot a mutates a statement of slot a and leaves
\* every store, atomic op, load and declaration of another slot as it was
C20_OtherSlotsUnchanged ==
  [][RunModified =>
       /\ OfSlot(StmtById(tree, thrown'.stmt), thrown'.alloca)
       /\ Others(tree, thrown'.alloca) \subseteq StmtsOf(tree')]_vars

\* C20 as amended: such a statement stays in the tree as it was, except that
\* an operand that named the replaced load names what replaced it
C20_OtherSlotsRedirected ==
  [][RunModified =>
       LET by == IF thrown'.type = "zero" THEN instance_id
                 ELSE IF thrown'.type = "forward"
                 THEN StmtById(tree, thrown'.by).opnd
                 ELSE thrown'.stmt
       IN  /\ OfSlot(StmtById(tree, thrown'.stmt), thrown'.alloca)
           /\ \A u \in Others(tree, thrown'.alloca) :
                /\ u.opnd = thrown'.stmt => thrown'.type \in {"zero", "forward"}
                /\ [u EXCEPT !.opnd = IF @ = thrown'.stmt THEN by ELSE @]
                     \in StmtsOf(tree')]_vars

\* a run for slot s forwarded a load that a store to slot t had as operand
C20_Witness ==
  /\ thrown.type = "forward"
  /\ thrown.alloca = SlotS
  /\ \E u \in StmtsOf(tree) :
       /\ u.kind = "store" /\ u.var = SlotT
       /\ u.id \in IdsOf(input)
       /\ StmtById(input, u.id).opnd = thrown.stmt
       /\ u.opnd = ConstId

====
